---------------------------- MODULE Spec2Model ----------------------------
(***************************************************************************)
(* Model of nilearn/mass_univariate/permuted_least_squares.py              *)
(* (permuted_ols and its helpers).                                         *)
(*                                                                         *)
(* Floating point numbers are modelled as exact rationals <<n, d>> with    *)
(* d > 0 in lowest terms, completed IEEE-style with <<1, 0>> (+inf),       *)
(* <<-1, 0>> (-inf) and <<0, 0>> (nan), which is what numpy yields on a    *)
(* division by zero.  Arrays are sequences of rows.  The data sets are     *)
(* chosen so that every L2 norm taken by the program is rational.          *)
(***************************************************************************)
EXTENDS Integers, Sequences, FiniteSets, TLC

(***************************************************************************)
(* Bounds of the model.                                                    *)
(***************************************************************************)
MaxPerm == 3
MaxJobs == 4
MaxNegJobs == 2
MaxCpu == 4
MaxSeed == 1

(***************************************************************************)
(* Floating point arithmetic (numpy float64, exact).                       *)
(***************************************************************************)
\* the value v bound to the parameter of F
With(v, F(_)) == F(v)

Abs(x) == IF x < 0 THEN -x ELSE x

Sign(x) == IF x < 0 THEN -1 ELSE IF x > 0 THEN 1 ELSE 0

RECURSIVE Gcd(_, _)
Gcd(a, b) == IF b = 0 THEN a ELSE Gcd(b, a % b)

Q(n, d) ==
    IF d = 0 THEN <<Sign(n), 0>>
    ELSE With(Gcd(Abs(n), Abs(d)),
              LAMBDA g : <<(Sign(d) * n) \div g, (Sign(d) * d) \div g>>)

Rat(k) == <<k, 1>>
Zero == <<0, 1>>
One == <<1, 1>>
Inf == <<1, 0>>
NaN == <<0, 0>>

IsNaN(a) == a = NaN

QAdd(a, b) ==
    IF a[2] = 0 /\ b[2] = 0
    THEN (IF a = b THEN a ELSE NaN)
    ELSE Q(a[1] * b[2] + b[1] * a[2], a[2] * b[2])

QNeg(a) == <<-a[1], a[2]>>

QSub(a, b) == QAdd(a, QNeg(b))

QMul(a, b) == Q(a[1] * b[1], a[2] * b[2])

\* numpy true division: x / 0 is +-inf, 0 / 0 is nan (a warning, no exception)
QDiv(a, b) ==
    IF b[2] = 0
    THEN (IF a[2] = 0 \/ IsNaN(b) THEN NaN ELSE Zero)
    ELSE IF a[2] = 0
    THEN (IF b[1] < 0 THEN QNeg(a) ELSE a)
    ELSE Q(a[1] * b[2], a[2] * b[1])

\* a < b on floats: every comparison with nan is False
QLess(a, b) ==
    IF IsNaN(a) \/ IsNaN(b) THEN FALSE
    ELSE IF a[2] = 0 /\ b[2] = 0 THEN a[1] < b[1]
    ELSE a[1] * b[2] < b[1] * a[2]

ISqrt(n) == CHOOSE r \in 0..n : r * r = n

\* np.sqrt, on the rationals that are squares of rationals
QSqrt(a) == IF a[2] = 0 THEN a ELSE <<ISqrt(a[1]), ISqrt(a[2])>>

RECURSIVE QSum(_)
QSum(s) == IF s = <<>> THEN Zero ELSE QAdd(s[1], QSum(Tail(s)))

\* np.amax of a vector: nan propagates
QMax2(a, b) ==
    IF IsNaN(a) \/ IsNaN(b) THEN NaN ELSE IF QLess(a, b) THEN b ELSE a

RECURSIVE QMax(_)
QMax(s) == IF Len(s) = 1 THEN s[1] ELSE QMax2(s[1], QMax(Tail(s)))

(***************************************************************************)
(* Arrays.                                                                 *)
(***************************************************************************)
\* a sequence given as a function on 1..n, as the tuple of its values
Vec(f) == f \o <<>>

NRows(m) == Len(m)
NCols(m) == IF Len(m) = 0 THEN 0 ELSE Len(m[1])

Column(m, j) == Vec([i \in 1..NRows(m) |-> m[i][j]])

Transpose(m) == Vec([j \in 1..NCols(m) |-> Column(m, j)])

Dot(u, v) == QSum(Vec([i \in 1..Len(u) |-> QMul(u[i], v[i])]))

\* np.dot(a, b) for 2-D arrays
MatMul(a, b) ==
    Vec([i \in 1..NRows(a) |->
        Vec([j \in 1..NCols(b) |-> Dot(a[i], Column(b, j))])])

MatSub(a, b) ==
    Vec([i \in 1..NRows(a) |->
        Vec([j \in 1..NCols(a) |-> QSub(a[i][j], b[i][j])])])

\* m ** 2
Squares(m) ==
    Vec([i \in 1..NRows(m) |->
        Vec([j \in 1..NCols(m) |-> QMul(m[i][j], m[i][j])])])

IntVector(v) == Vec([i \in 1..Len(v) |-> Rat(v[i])])
IntMatrix(m) == Vec([i \in 1..Len(m) |-> IntVector(m[i])])

\* np.hstack((a, b)) for 2-D arrays with the same number of rows
HStack(a, b) == Vec([i \in 1..NRows(a) |-> a[i] \o b[i]])

\* np.ones((n, 1))
OnesColumn(n) == Vec([i \in 1..n |-> <<One>>])

Norm(v) == QSqrt(Dot(v, v))

(***************************************************************************)
(* normalize_matrix_on_axis, for the 2-D arrays permuted_ols passes.       *)
(***************************************************************************)
\* m / norms, norms holding one divisor per column of m
DivideColumns(m, norms) ==
    Vec([i \in 1..NRows(m) |->
        Vec([j \in 1..NCols(m) |-> QDiv(m[i][j], norms[j])])])

NormalizeColumns(m) ==
    DivideColumns(m, Vec([j \in 1..NCols(m) |-> Norm(Column(m, j))]))

normalize_matrix_on_axis(m, axis) ==
    IF axis = 0 THEN NormalizeColumns(m)
    ELSE Transpose(NormalizeColumns(Transpose(m)))

(***************************************************************************)
(* orthonormalize_matrix: an orthonormal basis of the column space of m,   *)
(* cropped to the rank of m.  scipy's SVD is replaced by Gram-Schmidt on   *)
(* the columns in order: the basis spans the same space and has the same   *)
(* number of columns; permuted_ols only uses the basis through projections *)
(* and sums of squared projections, which do not depend on the basis.      *)
(***************************************************************************)
\* v - c * q
SubScaled(v, c, q) == Vec([i \in 1..Len(v) |-> QSub(v[i], QMul(c, q[i]))])

\* v / c
Scaled(v, c) == Vec([i \in 1..Len(v) |-> QDiv(v[i], c)])

RECURSIVE ProjectOut(_, _)
ProjectOut(v, basis) ==
    IF basis = <<>> THEN v
    ELSE ProjectOut(SubScaled(v, Dot(v, basis[1]), basis[1]), Tail(basis))

ExtendBasis(basis, w, n) ==
    IF n = Zero THEN basis ELSE Append(basis, Scaled(w, n))

RECURSIVE GramSchmidt(_, _)
GramSchmidt(cols, basis) ==
    IF cols = <<>> THEN basis
    ELSE GramSchmidt(Tail(cols),
             With(ProjectOut(cols[1], basis),
                  LAMBDA w : ExtendBasis(basis, w, Norm(w))))

orthonormalize_matrix(m) ==
    IF NCols(m) = 0 THEN m ELSE Transpose(GramSchmidt(Transpose(m), <<>>))

(***************************************************************************)
(* _f_score, fast path (normalized_design=True).  covars is <<>> for None. *)
(* The result has one row per column of vars2 and one column per column of *)
(* vars1.                                                                  *)
(***************************************************************************)
None == <<>>

LostDof(covars) == IF covars = None THEN 0 ELSE NCols(covars)

\* a mutant of Dof: the confounds do not cost degrees of freedom
DofWithoutConfounds(vars2, covars) == NRows(vars2) - 1

Dof(vars2, covars) == NRows(vars2) - 1 - LostDof(covars)

\* b2 = np.dot(vars2.T, vars1) ** 2
B2(vars1, vars2) == Squares(MatMul(Transpose(vars2), vars1))

\* np.sum(m, 1)
RowSums(m) == Vec([i \in 1..NRows(m) |-> QSum(m[i])])

\* a2 = np.sum(np.dot(vars2.T, covars) ** 2, 1)
A2(vars2, covars) == RowSums(Squares(MatMul(Transpose(vars2), covars)))

\* 1 - b2
RssNoCovars(b2) ==
    Vec([i \in 1..NRows(b2) |->
        Vec([j \in 1..NCols(b2) |-> QSub(One, b2[i][j])])])

\* 1 - a2[:, np.newaxis] - b2
RssCovars(a2, b2) ==
    Vec([i \in 1..NRows(b2) |->
        Vec([j \in 1..NCols(b2) |-> QSub(QSub(One, a2[i]), b2[i][j])])])

\* the residual sum of squares, the divisor of the score
Rss(b2, vars2, covars) ==
    IF covars = None THEN RssNoCovars(b2)
    ELSE RssCovars(A2(vars2, covars), b2)

\* b2 / rss * dof
Score(b2, rss, dof) ==
    Vec([i \in 1..NRows(b2) |->
        Vec([j \in 1..NCols(b2) |->
            QMul(QDiv(b2[i][j], rss[i][j]), Rat(dof))])])

ScoreOfB2(b2, vars2, covars) ==
    Score(b2, Rss(b2, vars2, covars), Dof(vars2, covars))

f_score(vars1, vars2, covars) == ScoreOfB2(B2(vars1, vars2), vars2, covars)

(***************************************************************************)
(* The random generator.  check_random_state(seed) builds a generator      *)
(* whose stream is a function of the seed alone; numpy's Mersenne Twister  *)
(* is replaced by a small linear congruential generator.  A draw advances  *)
(* the generator once.                                                     *)
(***************************************************************************)
check_random_state(seed) == seed % 101

RngNext(s) == (5 * s + 7) % 101

RECURSIVE Factorial(_)
Factorial(n) == IF n <= 1 THEN 1 ELSE n * Factorial(n - 1)

RemoveAt(s, k) == [i \in 1..(Len(s) - 1) |-> IF i < k THEN s[i] ELSE s[i + 1]]

\* the k-th arrangement of the sequence items (factorial number system)
RECURSIVE Arrangement(_, _)
Arrangement(k, items) ==
    IF items = <<>> THEN <<>>
    ELSE LET f == Factorial(Len(items) - 1)
             p == (k \div f) + 1
         IN  <<items[p]>> \o Arrangement(k % f, RemoveAt(items, p))

\* rng.permutation(n), drawn from generator state s
Permutation(s, n) == Arrangement(s % Factorial(n), [i \in 1..n |-> i])

RECURSIVE Pow2(_)
Pow2(k) == IF k = 0 THEN 1 ELSE 2 * Pow2(k - 1)

\* rng.randint(2, size=(1, n)), drawn from generator state s
RandInt2(s, n) == [j \in 1..n |-> (s \div Pow2(j - 1)) % 2]

(***************************************************************************)
(* The arguments of permuted_ols.  An input array is a record with its     *)
(* number of dimensions and its data; only 1-D and 2-D data are read.      *)
(***************************************************************************)
Array1(v) == [ndim |-> 1, data |-> IntMatrix(<<v>>)]
Array2(m) == [ndim |-> 2, data |-> IntMatrix(m)]
Array3(m) == [ndim |-> 3, data |-> IntMatrix(m)]
NoArray == [ndim |-> 0, data |-> <<>>]

DataSets == <<
    \* one regressor given as a vector, two descriptors, no confounds
    [tested_vars |-> Array1(<<7, 7, 1, 1>>),
     target_vars |-> Array2(<<<<9, 1>>, <<3, 7>>, <<3, 7>>, <<1, 1>>>>),
     confounding_vars |-> NoArray],
    \* two regressors, two descriptors, one confound
    [tested_vars |-> Array2(<<<<7, 7>>, <<7, 1>>, <<1, 1>>, <<1, 7>>>>),
     target_vars |-> Array2(<<<<19, 13>>, <<11, 5>>, <<5, 11>>, <<13, 19>>>>),
     confounding_vars |-> Array2(<<<<1>>, <<-1>>, <<1>>, <<-1>>>>)],
    \* a constant regressor (intercept test), one descriptor
    [tested_vars |-> Array2(<<<<2>>, <<2>>, <<2>>, <<2>>>>),
     target_vars |-> Array2(<<<<9>>, <<3>>, <<3>>, <<1>>>>),
     confounding_vars |-> NoArray],
    \* a constant regressor (intercept test), two descriptors
    [tested_vars |-> Array2(<<<<2>>, <<2>>, <<2>>, <<2>>>>),
     target_vars |-> Array2(<<<<9, 1>>, <<3, 7>>, <<3, 7>>, <<1, 1>>>>),
     confounding_vars |-> NoArray],
    \* a target with one dimension
    [tested_vars |-> Array1(<<7, 7, 1, 1>>),
     target_vars |-> Array1(<<9, 3, 3, 1>>),
     confounding_vars |-> NoArray],
    \* a target with three dimensions
    [tested_vars |-> Array1(<<7, 7, 1, 1>>),
     target_vars |-> Array3(<<<<9, 1>>, <<3, 7>>, <<3, 7>>, <<1, 1>>>>),
     confounding_vars |-> NoArray],
    \* two regressors that are the same constant, one descriptor
    [tested_vars |-> Array2(<<<<2, 2>>, <<2, 2>>, <<2, 2>>, <<2, 2>>>>),
     target_vars |-> Array2(<<<<9>>, <<3>>, <<3>>, <<1>>>>),
     confounding_vars |-> NoArray] >>

NJobsValues == (-MaxNegJobs)..MaxJobs
NPermValues == -1..MaxPerm
RandomStates == 0..MaxSeed
CpuCounts == 1..MaxCpu

Arguments ==
    [data : 1..Len(DataSets), model_intercept : BOOLEAN,
     n_perm : NPermValues, random_state : RandomStates, n_jobs : NJobsValues]

(***************************************************************************)
(* permuted_ols: validation of the arguments.                              *)
(***************************************************************************)
\* a mutant of NJobsIsInvalid: 0 is taken as a request like any other
NJobsIsInvalidNever(n) == FALSE

\* line 309: the request that is refused
NJobsIsInvalid(n) == n = 0

\* the worker count for a request n_jobs # 0 on a machine with c CPUs
ResolveNJobs(n, c) ==
    IF n < 0
    THEN (IF 1 > c - n + 1 THEN 1 ELSE c - n + 1)
    ELSE (IF n < c THEN n ELSE c)

\* a mutant of TargetIs2D: only more than two dimensions are refused
TargetIsAtMost2D(target) == target.ndim <= 2

TargetIs2D(target) == target.ndim = 2

(***************************************************************************)
(* permuted_ols: preparation of the design.                                *)
(***************************************************************************)
\* tested_vars as a 2-D array (np.atleast_2d(tested_vars).T for a vector)
TestedVars2D(tested) ==
    IF tested.ndim = 1 THEN Transpose(tested.data) ELSE tested.data

\* np.unique(m).size
UniqueSize(m) ==
    Cardinality({m[i][j] : i \in 1..NRows(m), j \in 1..NCols(m)})

\* a mutant of InterceptTest: the number of regressors is not looked at
InterceptTestAnyWidth(tested2d) == UniqueSize(tested2d) = 1

\* lines 333-336
InterceptTest(tested2d) == NCols(tested2d) = 1 /\ UniqueSize(tested2d) = 1

\* the confounds after the optional addition of the intercept
AddIntercept(confounds, model_intercept, is_intercept_test, n_samples) ==
    IF model_intercept /\ ~is_intercept_test
    THEN (IF confounds.ndim # 0
          THEN HStack(confounds.data, OnesColumn(n_samples))
          ELSE OnesColumn(n_samples))
    ELSE (IF confounds.ndim # 0 THEN confounds.data ELSE None)

CovarsOrthonormalized(confounds) ==
    IF confounds = None THEN None ELSE orthonormalize_matrix(confounds)

\* m holds one variate per row, normalized; the result holds the normalized
\* residuals of the rows of m against the orthonormal columns of covars
ResidCovars(m, covars) ==
    normalize_matrix_on_axis(
        MatSub(m, MatMul(MatMul(m, covars), Transpose(covars))), 1)

\* targetvars_resid_covars: one descriptor per row
TargetvarsResidCovars(target2d, covars) ==
    IF covars # None
    THEN ResidCovars(Transpose(normalize_matrix_on_axis(target2d, 0)), covars)
    ELSE Transpose(normalize_matrix_on_axis(target2d, 0))

\* testedvars_resid_covars: one regressor per column
TestedvarsResidCovars(tested2d, covars) ==
    IF covars # None
    THEN Transpose(ResidCovars(
             normalize_matrix_on_axis(Transpose(tested2d), 1), covars))
    ELSE normalize_matrix_on_axis(tested2d, 0)

\* a mutant of ScoresOriginalData: the confounds are left out of the score
ScoresOriginalDataNoCovars(tested_resid, target_resid, covars) ==
    f_score(tested_resid, Transpose(target_resid), None)

\* the F-scores of the original data
ScoresOriginalData(tested_resid, target_resid, covars) ==
    f_score(tested_resid, Transpose(target_resid), covars)

(***************************************************************************)
(* permuted_ols: the split of the permutations into chunks.                *)
(***************************************************************************)
\* a mutant of NPermChunks: the remainder of the division is dropped
NPermChunksNoRemainder(n_perm, n_workers) ==
    IF n_perm > n_workers
    THEN [k \in 1..n_workers |-> n_perm \div n_workers]
    ELSE IF n_perm > 0
    THEN [k \in 1..n_perm |-> 1]
    ELSE <<>>

\* a mutant of NPermChunks: the remainder goes to the first chunk
NPermChunksRemainderFirst(n_perm, n_workers) ==
    IF n_perm > n_workers
    THEN [k \in 1..n_workers |->
             IF k = 1
             THEN (n_perm \div n_workers) + (n_perm % n_workers)
             ELSE n_perm \div n_workers]
    ELSE IF n_perm > 0
    THEN [k \in 1..n_perm |-> 1]
    ELSE <<>>

\* lines 396-400: the number of permutations of every chunk
NPermChunks(n_perm, n_workers) ==
    IF n_perm > n_workers
    THEN [k \in 1..n_workers |->
             IF k = n_workers
             THEN (n_perm \div n_workers) + (n_perm % n_workers)
             ELSE n_perm \div n_workers]
    ELSE IF n_perm > 0
    THEN [k \in 1..n_perm |-> 1]
    ELSE <<>>

\* the random_state handed to chunk k of a call with the given random_state
ChunkRandomState(random_state, k) == 0

NewChunk(n_perm_chunk, seed, tested, target, covars) ==
    [status |-> "pending", n_perm_chunk |-> n_perm_chunk,
     random_state |-> seed, rng |-> 0, i |-> 0,
     tested_vars |-> tested, target_vars |-> target,
     confounding_vars |-> covars,
     h0_fmax_part |-> <<>>, scores_as_ranks_part |-> <<>>]

(***************************************************************************)
(* _permuted_ols_on_chunk.                                                 *)
(***************************************************************************)
\* whether target * signs broadcasts, signs having shape (1, n)
Broadcastable(target, n) == NCols(target) = n \/ NCols(target) = 1 \/ n = 1

\* target_vars * signs * 2 - 1, signs having shape (1, n)
SignSwap(target, signs) ==
    LET n == Len(signs)
        c == NCols(target)
        w == IF c > n THEN c ELSE n
    IN  Vec([i \in 1..NRows(target) |-> Vec([j \in 1..w |->
            QSub(QMul(QMul(target[i][IF c = 1 THEN 1 ELSE j],
                           Rat(signs[IF n = 1 THEN 1 ELSE j])),
                      Rat(2)),
                 One)])])

\* m[shuffle_idx]
ShuffleRows(m, shuffle_idx) ==
    Vec([i \in 1..Len(shuffle_idx) |-> m[shuffle_idx[i]]])

\* np.amax(m, 0)
AMax0(m) == Vec([j \in 1..NCols(m) |-> QMax(Column(m, j))])

\* a mutant of BelowOriginal: a tie with the original score counts
BelowOrEqualOriginal(h0_row, scores) ==
    Vec([r \in 1..Len(h0_row) |-> Vec([d \in 1..NRows(scores) |->
        IF ~QLess(scores[d][r], h0_row[r]) THEN 1 ELSE 0])])

\* h0_row.reshape((-1, 1)) < scores_original_data.T, as 0 or 1
BelowOriginal(h0_row, scores) ==
    Vec([r \in 1..Len(h0_row) |-> Vec([d \in 1..NRows(scores) |->
        IF QLess(h0_row[r], scores[d][r]) THEN 1 ELSE 0])])

AddRanks(a, b) ==
    Vec([r \in 1..NRows(a) |->
        Vec([d \in 1..NCols(a) |-> a[r][d] + b[r][d]])])

ZeroRanks(n_regressors, n_descriptors) ==
    Vec([r \in 1..n_regressors |-> Vec([d \in 1..n_descriptors |-> 0])])

\* the chunk at the start of its loop
StartedChunk(c) ==
    [c EXCEPT !.status = "running",
              !.rng = check_random_state(c.random_state),
              !.scores_as_ranks_part =
                  ZeroRanks(NCols(c.tested_vars), NCols(c.target_vars))]

\* whether the next permutation of the chunk raises
PermutationRaises(c, is_intercept_test) ==
    is_intercept_test /\ ~Broadcastable(c.target_vars, NRows(c.tested_vars))

\* a mutant of Randomized: the confounds are not shuffled with tested_vars
RandomizedTestedOnly(c, is_intercept_test) ==
    LET n_samples == NRows(c.tested_vars)
        rng == RngNext(c.rng)
        shuffle_idx == Permutation(rng, n_samples)
    IN  IF is_intercept_test
        THEN [c EXCEPT !.rng = rng,
                       !.target_vars =
                           SignSwap(c.target_vars, RandInt2(rng, n_samples))]
        ELSE [c EXCEPT !.rng = rng,
                       !.tested_vars = ShuffleRows(c.tested_vars, shuffle_idx)]

\* the data of the chunk after the sign swap or the shuffle of one iteration
Randomized(c, is_intercept_test) ==
    LET n_samples == NRows(c.tested_vars)
        rng == RngNext(c.rng)
        shuffle_idx == Permutation(rng, n_samples)
    IN  IF is_intercept_test
        THEN [c EXCEPT !.rng = rng,
                       !.target_vars =
                           SignSwap(c.target_vars, RandInt2(rng, n_samples))]
        ELSE [c EXCEPT !.rng = rng,
                       !.tested_vars = ShuffleRows(c.tested_vars, shuffle_idx),
                       !.confounding_vars =
                           IF c.confounding_vars = None THEN None
                           ELSE ShuffleRows(c.confounding_vars, shuffle_idx)]

\* the F-scores of the randomized data
PermScores(c) == f_score(c.tested_vars, c.target_vars, c.confounding_vars)

\* the chunk at the end of an iteration whose maximal scores are h0_row
Ranked(c, h0_row, scores) ==
    [c EXCEPT !.i = c.i + 1,
              !.status = IF c.i + 1 = c.n_perm_chunk
                         THEN "returned" ELSE "running",
              !.h0_fmax_part = Append(c.h0_fmax_part, h0_row),
              !.scores_as_ranks_part =
                  AddRanks(c.scores_as_ranks_part,
                           BelowOriginal(h0_row, scores))]

\* the chunk after one more permutation of its loop
Permuted(c, is_intercept_test, scores) ==
    With(Randomized(c, is_intercept_test),
         LAMBDA r : Ranked(r, AMax0(PermScores(r)), scores))

\* a mutant of ReceivedArrays: the shuffle is written into the arrays that
\* the chunk received, as tested_vars[:] = tested_vars[shuffle_idx] would
ReceivedArraysShuffledInPlace(received, c) ==
    [received EXCEPT !.tested_vars = c.tested_vars,
                     !.confounding_vars = c.confounding_vars]

\* the arrays that the chunk received from permuted_ols, after an iteration
\* that leaves the chunk as c: lines 209, 218 and 220 bind the names of the
\* loop to new arrays, and lines 155 and 224 write into arrays that the chunk
\* made itself (the quotient b2 / rss and scores_as_ranks_part)
ReceivedArrays(received, c) == received

(***************************************************************************)
(* permuted_ols: reduction of the results of the chunks.                   *)
(***************************************************************************)
\* a mutant of ParallelResults: the results in the order of completion
ParallelResultsAsCompleted(cs, order) ==
    [i \in 1..Len(order) |-> cs[order[i]]]

\* the results of joblib.Parallel: one per task, in the order of the tasks
ParallelResults(cs, order) == cs

RECURSIVE HStackAll(_)
HStackAll(parts) ==
    IF Len(parts) = 1 THEN parts[1]
    ELSE HStack(parts[1], HStackAll(Tail(parts)))

\* np.hstack of the transposed h0_fmax_part of every chunk
H0Fmax(rets) ==
    HStackAll(Vec([k \in 1..Len(rets) |-> Transpose(rets[k].h0_fmax_part)]))

RECURSIVE SumRanks(_, _)
SumRanks(rets, acc) ==
    IF rets = <<>> THEN acc
    ELSE SumRanks(Tail(rets), AddRanks(acc, rets[1].scores_as_ranks_part))

\* a mutant of Pvals: the original data is not counted in its distribution
PvalsWithoutOriginal(n_perm, ranks) ==
    Vec([r \in 1..NRows(ranks) |-> Vec([d \in 1..NCols(ranks) |->
        Q(n_perm - ranks[r][d], 1 + n_perm)])])

Pvals(n_perm, ranks) ==
    Vec([r \in 1..NRows(ranks) |-> Vec([d \in 1..NCols(ranks) |->
        Q(n_perm + 1 - ranks[r][d], 1 + n_perm)])])

\* - np.log10(p), kept symbolic
NegLog10(pvals) ==
    Vec([r \in 1..NRows(pvals) |-> Vec([d \in 1..NCols(pvals) |->
        [neg_log10_of |-> pvals[r][d]]])])

(***************************************************************************)
(* load_confounds: the selection of the compcor columns (parser.py).       *)
(* A data frame is modelled by the sequence of its column labels; the json *)
(* companion of a confounds file is a function from its keys to their      *)
(* entries, or the path of the file when the file could not be opened.     *)
(* Python values that the code compares across types carry their type.     *)
(***************************************************************************)
MaxComp == 2
MaxStrategies == 2
MaxMissing == 2
MaxScans == 10

PyStr(s) == [type |-> "str", str |-> s, int |-> 0]
PyInt(k) == [type |-> "int", str |-> "", int |-> k]
PyBool(b) == [type |-> "bool", str |-> "", int |-> IF b THEN 1 ELSE 0]
PyNone == [type |-> "NoneType", str |-> "", int |-> 0]

\* a == b in Python: a str equals the same str only, and a bool is the int
\* 0 or 1
PyEq(a, b) ==
    IF a.type = "str" \/ b.type = "str" THEN a = b ELSE a.int = b.int

ACompCorLabels == <<"a_comp_cor_00", "a_comp_cor_01", "a_comp_cor_02">>
TCompCorLabels == <<"t_comp_cor_00", "t_comp_cor_01", "t_comp_cor_02">>

\* f"{prefix}_comp_cor_{nn_str}" with nn_str = str(nn).zfill(2)
CompcorCol(prefix, nn) ==
    IF prefix = "a" THEN ACompCorLabels[nn + 1] ELSE TCompCorLabels[nn + 1]

\* f"{prefix}_comp_cor" in comp
IsCompcorOf(prefix, comp) ==
    \E nn \in 0..(Len(ACompCorLabels) - 1) : comp = CompcorCol(prefix, nn)

\* "cosine" in col
IsCosine(col) == col \in {"cosine00", "cosine01"}

HasKeys(confounds_json) == confounds_json.type = "dict"

\* _select_compcor; n_compcor is "auto" or a number
select_compcor(compcor_cols, n_compcor) ==
    IF ~PyEq(n_compcor, PyStr("auto")) /\ n_compcor.int < Len(compcor_cols)
    THEN SubSeq(compcor_cols, 1, n_compcor.int)
    ELSE compcor_cols

\* the loop of _find_compcor over nn = from .. n_all - 1
RECURSIVE RetainCompcor(_, _, _, _, _)
RetainCompcor(keys, prefix, compcor_mask, from, n_all) ==
    IF from >= n_all THEN <<>>
    ELSE LET compcor_col == CompcorCol(prefix, from)
             rest == RetainCompcor(keys, prefix, compcor_mask, from + 1, n_all)
         IN  IF prefix = "t"
                \/ (prefix = "a" /\ PyEq(keys[compcor_col].Mask, compcor_mask))
             THEN <<compcor_col>> \o rest
             ELSE rest

\* _find_compcor, for a json that is a dict (keys is the dict)
find_compcor(keys, prefix, n_compcor, compcor_mask) ==
    LET n_all == Cardinality({k \in DOMAIN keys : IsCompcorOf(prefix, k)})
    IN  select_compcor(RetainCompcor(keys, prefix, compcor_mask, 0, n_all),
                       n_compcor)

\* _find_acompcor
find_acompcor(keys, n_compcor, acompcor_combined) ==
    IF acompcor_combined
    THEN find_compcor(keys, "a", n_compcor, PyStr("combined"))
    ELSE find_compcor(keys, "a", n_compcor, PyStr("WM"))
         \o find_compcor(keys, "a", n_compcor, PyStr("CSF"))

\* the columns _load_compcor looks for, for a json that is a dict
CompcorCols(keys, compcor, n_compcor, acompcor_combined) ==
    IF compcor = "anat"
    THEN find_acompcor(keys, n_compcor, acompcor_combined)
    ELSE IF compcor = "temp"
    THEN find_compcor(keys, "t", n_compcor, PyBool(acompcor_combined))
    ELSE find_compcor(keys, "a", n_compcor, PyBool(acompcor_combined))
         \o find_compcor(keys, "t", n_compcor, PyBool(acompcor_combined))

Range(s) == {s[i] : i \in 1..Len(s)}

\* _check_params: the parameters that are not columns of confounds_raw
NotFoundParams(columns, params) ==
    SelectSeq(params, LAMBDA par : par \notin Range(columns))

\* what _load_<confound> does: the columns it returns (with the volumes that
\* the columns of _load_scrub mark), or what it raises
LoadedOutliers(cols, outliers) ==
    [raises |-> "", columns |-> cols, params |-> <<>>, keywords |-> <<>>,
     outliers |-> outliers]

Loaded(cols) == LoadedOutliers(cols, <<>>)

MissingConfound(params, keywords) ==
    [raises |-> "MissingConfound", columns |-> <<>>, params |-> params,
     keywords |-> keywords, outliers |-> <<>>]

OtherError(name) ==
    [raises |-> name, columns |-> <<>>, params |-> <<>>, keywords |-> <<>>,
     outliers |-> <<>>]

CheckedParams(columns, params) ==
    IF NotFoundParams(columns, params) # <<>>
    THEN MissingConfound(NotFoundParams(columns, params), <<>>)
    ELSE Loaded(params)

load_compcor(obj, columns) ==
    IF ~HasKeys(obj.json_) THEN OtherError("AttributeError")
    ELSE CheckedParams(columns,
             CompcorCols(obj.json_.keys, obj.compcor, obj.n_compcor,
                         obj.acompcor_combined))

\* _load_high_pass, through _find_confounds(confounds_raw, ["cosine"])
load_high_pass(obj, columns) ==
    IF SelectSeq(columns, IsCosine) = <<>>
    THEN MissingConfound(<<>>, <<"cosine">>)
    ELSE Loaded(SelectSeq(columns, IsCosine))

\* f"{par}_{suff}" for the suffix "derivative1"
Derivative1 ==
    [trans_x |-> "trans_x_derivative1", trans_y |-> "trans_y_derivative1",
     trans_z |-> "trans_z_derivative1", rot_x |-> "rot_x_derivative1",
     rot_y |-> "rot_y_derivative1", rot_z |-> "rot_z_derivative1",
     csf |-> "csf_derivative1", white_matter |-> "white_matter_derivative1",
     global_signal |-> "global_signal_derivative1"]

\* _add_suffix for the models "basic" and "derivatives", whose sets of
\* suffixes have no and one element: the parameters, then their derivatives
add_suffix(params, model) ==
    IF model = "basic" THEN params
    ELSE params \o [i \in 1..Len(params) |-> Derivative1[params[i]]]

MotionPcaLabels ==
    <<"motion_pca_1", "motion_pca_2", "motion_pca_3", "motion_pca_4",
      "motion_pca_5", "motion_pca_6">>

\* _load_motion, with _pca_motion when n_motion > 0
load_motion(obj, columns) ==
    LET motion_params ==
            add_suffix(<<"trans_x", "trans_y", "trans_z",
                         "rot_x", "rot_y", "rot_z">>, obj.motion)
        checked == CheckedParams(columns, motion_params)
    IN  IF checked.raises # "" \/ obj.n_motion <= 0 THEN checked
        ELSE IF obj.n_motion > Len(motion_params)
        THEN OtherError("ValueError")
        ELSE Loaded(SubSeq(MotionPcaLabels, 1, obj.n_motion))

\* _load_wm_csf
load_wm_csf(obj, columns) ==
    CheckedParams(columns, add_suffix(<<"csf", "white_matter">>, obj.wm_csf))

\* _load_global
load_global(obj, columns) ==
    CheckedParams(columns, add_suffix(<<"global_signal">>, obj.global_signal))

\* "aroma" in col
IsAroma(col) == col \in {"aroma_motion_01", "aroma_motion_02"}

\* _load_ica_aroma, through _find_confounds(confounds_raw, ["aroma"])
load_ica_aroma(obj, columns) ==
    IF obj.ica_aroma = PyNone THEN OtherError("ValueError")
    ELSE IF PyEq(obj.ica_aroma, PyStr("full")) THEN Loaded(<<>>)
    ELSE IF SelectSeq(columns, IsAroma) = <<>>
    THEN MissingConfound(<<>>, <<"aroma">>)
    ELSE Loaded(SelectSeq(columns, IsAroma))

\* list(range(from, to))
RangeList(from, to) ==
    [i \in 1..(IF to > from THEN to - from ELSE 0) |-> from + i - 1]

\* np.sort(np.unique(a))
RECURSIVE SortUnique(_)
SortUnique(a) ==
    IF a = <<>> THEN <<>>
    ELSE LET least == CHOOSE x \in Range(a) : \A y \in Range(a) : x <= y
         IN  <<least>> \o SortUnique(SelectSeq(a, LAMBDA x : x # least))

\* np.diff(a)
Diff(a) == [i \in 1..(Len(a) - 1) |-> a[i + 1] - a[i]]

\* a mutant of ShortSegmentsInds: segments of fewer than 4 volumes
ShortSegmentsIndsBelow4(fd_outliers) ==
    LET fd_outlier_ind_diffs == Diff(fd_outliers)
    IN  SelectSeq([i \in 1..Len(fd_outlier_ind_diffs) |-> i],
                  LAMBDA ind : /\ fd_outlier_ind_diffs[ind] > 1
                               /\ fd_outlier_ind_diffs[ind] < 5)

\* lines 69-72 of _optimize_scrub: where two successive outliers are 2 to 5
\* volumes apart (the positions count from 1 here)
ShortSegmentsInds(fd_outliers) ==
    LET fd_outlier_ind_diffs == Diff(fd_outliers)
    IN  SelectSeq([i \in 1..Len(fd_outlier_ind_diffs) |-> i],
                  LAMBDA ind : /\ fd_outlier_ind_diffs[ind] > 1
                               /\ fd_outlier_ind_diffs[ind] < 6)

\* lines 73-76 of _optimize_scrub: the loop over short_segments_inds
RECURSIVE FillSegments(_, _)
FillSegments(fd_outliers, short_segments_inds) ==
    IF short_segments_inds = <<>> THEN fd_outliers
    ELSE LET ind == Head(short_segments_inds)
         IN  FillSegments(fd_outliers \o RangeList(fd_outliers[ind] + 1,
                                                  fd_outliers[ind + 1]),
                          Tail(short_segments_inds))

\* lines 61-62 of _optimize_scrub: the segment at the beginning
FillBeginning(fd_outliers) ==
    IF fd_outliers[1] < 5
    THEN RangeList(0, fd_outliers[1]) \o fd_outliers
    ELSE fd_outliers

\* lines 64-67 of _optimize_scrub: the segment at the end
FillEnding(fd_outliers, n_scans) ==
    IF n_scans - (fd_outliers[Len(fd_outliers)] + 1) < 5
    THEN fd_outliers \o RangeList(fd_outliers[Len(fd_outliers)], n_scans)
    ELSE fd_outliers

\* _optimize_scrub of confounds.py
optimize_scrub(fd_outliers, n_scans) ==
    LET ended == FillEnding(FillBeginning(fd_outliers), n_scans)
    IN  SortUnique(FillSegments(ended, ShortSegmentsInds(ended)))

\* "motion_outlier_" + str(num), for num = 0, 1, ...
MotionOutlierLabels ==
    <<"motion_outlier_0", "motion_outlier_1", "motion_outlier_2",
      "motion_outlier_3", "motion_outlier_4", "motion_outlier_5",
      "motion_outlier_6", "motion_outlier_7", "motion_outlier_8",
      "motion_outlier_9", "motion_outlier_10", "motion_outlier_11",
      "motion_outlier_12", "motion_outlier_13", "motion_outlier_14",
      "motion_outlier_15">>

\* _load_scrub; the file gives the volumes whose framewise displacement and
\* whose std_dvars exceed the thresholds, which is what np.where returns
load_scrub(obj, f) ==
    IF "framewise_displacement" \notin Range(f.columns)
       \/ "std_dvars" \notin Range(f.columns)
    THEN OtherError("KeyError")
    ELSE LET combined_outliers ==
                 SortUnique(f.fd_outliers \o f.dvars_outliers)
             optimized ==
                 IF obj.scrub = "full" /\ Len(combined_outliers) > 0
                 THEN optimize_scrub(combined_outliers, f.n_scans)
                 ELSE combined_outliers
         IN  LoadedOutliers(SubSeq(MotionOutlierLabels, 1, Len(optimized)),
                            optimized)

\* getattr(self, f"_load_{confound}")(confounds_raw)
load_by_name(obj, confound, f) ==
    CASE confound = "motion" -> load_motion(obj, f.columns)
      [] confound = "high_pass" -> load_high_pass(obj, f.columns)
      [] confound = "wm_csf" -> load_wm_csf(obj, f.columns)
      [] confound = "global" -> load_global(obj, f.columns)
      [] confound = "compcor" -> load_compcor(obj, f.columns)
      [] confound = "ica_aroma" -> load_ica_aroma(obj, f.columns)
      [] confound = "scrub" -> load_scrub(obj, f)

(***************************************************************************)
(* load_confounds: the inputs of Confounds(...).load(file), for one file.  *)
(***************************************************************************)
Masks == {"combined", "WM", "CSF"}

MaskLists == UNION {[1..n -> Masks] : n \in 0..MaxComp}

\* the json of a file with the anatomical components of the given masks and
\* n_t temporal components
JsonDict(masks, n_t) ==
    [type |-> "dict",
     keys |-> [k \in {CompcorCol("a", nn) : nn \in 0..(Len(masks) - 1)}
                     \cup {CompcorCol("t", nn) : nn \in 0..(n_t - 1)} |->
                  IF IsCompcorOf("a", k)
                  THEN [Mask |-> PyStr(masks[
                           CHOOSE i \in 1..Len(masks) :
                               k = CompcorCol("a", i - 1)])]
                  ELSE [Method |-> PyStr("tCompCor")]]]

\* what _get_json returns when the json file cannot be opened: its path
JsonPath == [type |-> "str", keys |-> <<>>]

\* the column labels of the tsv file that goes with the json
TsvColumns(masks, n_t, n_cosine, n_lost) ==
    [i \in 1..Len(masks) |-> CompcorCol("a", i - 1)]
    \o [i \in 1..(IF n_t > n_lost THEN n_t - n_lost ELSE 0) |->
           CompcorCol("t", i - 1)]
    \o [i \in 1..n_cosine |-> <<"cosine00", "cosine01">>[i]]

\* a confounds file: the columns of the tsv, the json companion if any,
\* whether the AROMA image is in the directory, the number of rows, and the
\* rows whose framewise_displacement and whose std_dvars are above the
\* thresholds of the object
ConfoundsFile(columns, json, has_json, has_aroma, n_scans, fd, dvars) ==
    [columns |-> columns, json |-> json, has_json |-> has_json,
     has_aroma |-> has_aroma, n_scans |-> n_scans, fd_outliers |-> fd,
     dvars_outliers |-> dvars]

\* the files with compcor and cosine columns
Files ==
    {ConfoundsFile(TsvColumns(masks, n_t, n_cosine, n_lost),
                   IF has_json THEN JsonDict(masks, n_t) ELSE JsonPath,
                   has_json, TRUE, 0, <<>>, <<>>) :
        masks \in MaskLists, n_t \in 0..MaxComp, n_cosine \in 0..1,
        n_lost \in 0..1, has_json \in BOOLEAN}

all_confounds ==
    <<"motion", "high_pass", "wm_csf", "global", "compcor", "ica_aroma",
      "scrub">>

\* the columns that a file holds for a strategy, all of them or with one
\* or more of them lost
StrategyColumns(strategy, lost) ==
    CASE strategy = "motion" ->
             <<"trans_x", "trans_y", "trans_z", "rot_x", "rot_y",
               "trans_x_derivative1", "trans_y_derivative1",
               "trans_z_derivative1", "rot_x_derivative1",
               "rot_y_derivative1">>
             \o (IF lost THEN <<>> ELSE <<"rot_z", "rot_z_derivative1">>)
      [] strategy = "high_pass" ->
             IF lost THEN <<>> ELSE <<"cosine00", "cosine01">>
      [] strategy = "wm_csf" ->
             <<"csf">> \o (IF lost THEN <<>> ELSE <<"white_matter">>)
      [] strategy = "global" ->
             IF lost THEN <<>> ELSE <<"global_signal">>
      [] strategy = "compcor" ->
             <<"a_comp_cor_00">> \o (IF lost THEN <<>> ELSE <<"a_comp_cor_01">>)
      [] strategy = "ica_aroma" ->
             IF lost THEN <<>> ELSE <<"aroma_motion_01", "aroma_motion_02">>
      [] strategy = "scrub" ->
             <<"framewise_displacement">>
             \o (IF lost THEN <<>> ELSE <<"std_dvars">>)

RECURSIVE ColumnsOf(_, _)
ColumnsOf(strategies, lost) ==
    IF strategies = <<>> THEN <<>>
    ELSE StrategyColumns(Head(strategies), Head(strategies) \in lost)
         \o ColumnsOf(Tail(strategies), lost)

\* the files of 6 volumes with the columns of every strategy, but for the
\* lost columns of at most max_missing strategies
MissingFiles(max_missing) ==
    {ConfoundsFile(ColumnsOf(all_confounds, lost),
                   JsonDict(<<"combined", "combined">>, 0), TRUE,
                   has_aroma, 6, <<2>>, <<>>) :
        lost \in {l \in SUBSET Range(all_confounds) :
                     Cardinality(l) <= max_missing},
        has_aroma \in BOOLEAN}

\* the elements of a set of numbers, in ascending order
RECURSIVE Ascending(_)
Ascending(S) ==
    IF S = {} THEN <<>>
    ELSE LET least == CHOOSE x \in S : \A y \in S : x <= y
         IN  <<least>> \o Ascending(S \ {least})

\* the files of at most max_scans volumes with the columns of "scrub": any
\* volumes above the threshold of framewise_displacement, and none or one
\* above the threshold of std_dvars
ScrubFiles(max_scans) ==
    UNION {{ConfoundsFile(<<"framewise_displacement", "std_dvars">>,
                          JsonPath, FALSE, TRUE, n_scans,
                          Ascending(fd), Ascending(dvars)) :
                fd \in SUBSET (0..(n_scans - 1)),
                dvars \in {{}} \cup {{k} : k \in 0..(n_scans - 1)}} :
           n_scans \in 1..max_scans}

Strategies ==
    {<<"compcor">>, <<"high_pass", "compcor">>, <<"compcor", "high_pass">>}

\* Confounds.__init__, with motion = "basic", n_motion = 0, scrub = "full",
\* wm_csf = "basic", global_signal = "basic" and ica_aroma = None
NewConfounds(strategy, compcor, acompcor_combined, n_compcor) ==
    [strategy |-> strategy, compcor |-> compcor,
     acompcor_combined |-> acompcor_combined, n_compcor |-> n_compcor,
     motion |-> "basic", n_motion |-> 0, scrub |-> "full",
     wm_csf |-> "basic", global_signal |-> "basic", ica_aroma |-> PyNone,
     json_ |-> JsonPath, missing_confounds_ |-> <<>>, missing_keys_ |-> <<>>,
     assigned |-> FALSE, columns_ |-> <<>>]

ConfoundsObjects ==
    {NewConfounds(strategy, compcor, acompcor_combined, n_compcor) :
        strategy \in Strategies, compcor \in {"anat", "temp", "full"},
        acompcor_combined \in BOOLEAN,
        n_compcor \in {PyStr("auto")} \cup {PyInt(k) : k \in 1..MaxComp}}

\* the lists of at most max_strategies strategies, none of them twice
StrategyLists(max_strategies) ==
    {strategy \in UNION {[1..n -> Range(all_confounds)] :
                             n \in 1..max_strategies} :
        \A i, j \in 1..Len(strategy) : strategy[i] = strategy[j] => i = j}

\* the objects that load the files of MissingFiles
MissingObjects(max_strategies) ==
    {[NewConfounds(strategy, "anat", TRUE, PyStr("auto")) EXCEPT
          !.motion = "derivatives", !.n_motion = n_motion,
          !.ica_aroma = ica_aroma] :
        strategy \in StrategyLists(max_strategies), n_motion \in 0..1,
        ica_aroma \in {PyNone, PyStr("basic"), PyStr("full")}}

\* the objects that load the files of ScrubFiles
ScrubObjects ==
    {[NewConfounds(<<"scrub">>, "anat", TRUE, PyStr("auto")) EXCEPT
          !.scrub = scrub] : scrub \in {"basic", "full"}}

\* an exception that leaves load: its type, what it is about, and the lists
\* that the message of _check_error names
Error(type, about, missing_confounds, missing_keys) ==
    [type |-> type, about |-> about, missing_confounds |-> missing_confounds,
     missing_keys |-> missing_keys]

NoError == Error("", "", <<>>, <<>>)

VARIABLES
    self,                     \* the Confounds object
    file,                     \* the confounds file given to load
    load_pc,                  \* the position of the call of load
    confound,                 \* the index in self.strategy of _load_single
    confounds_df,             \* the column labels of confounds in _load_single
    scrubbed,                 \* the volumes that the columns of _load_scrub mark
    raised                    \* the exception load raised, NoError if none

loader == <<self, file, load_pc, confound, confounds_df, scrubbed, raised>>

\* load is not called
NoLoad ==
    /\ self = NewConfounds(<<>>, "anat", TRUE, PyStr("auto"))
    /\ file = ConfoundsFile(<<>>, JsonPath, FALSE, TRUE, 0, <<>>, <<>>)
    /\ load_pc = "none"
    /\ confound = 0
    /\ confounds_df = <<>>
    /\ scrubbed = <<>>
    /\ raised = NoError

(***************************************************************************)
(* The state: one call of permuted_ols in progress, and the record of an   *)
(* earlier call on the same data on the same machine.                      *)
(***************************************************************************)
VARIABLES
    cpu_count,                \* joblib.cpu_count()
    args,                     \* the arguments of the call
    pc,                       \* the position of the call
    n_jobs,                   \* n_jobs, resolved after validation
    intercept_test,
    confounding_vars,         \* the confounds after lines 339-344
    covars_orthonormalized,
    targetvars_resid_covars,
    testedvars_resid_covars,
    scores_original_data,
    chunks,                   \* the tasks handed to joblib.Parallel
    completed,                \* the tasks in the order they returned
    scores_as_ranks,
    result,                   \* what the call returned or raised
    prev                      \* the earlier call

ols == <<cpu_count, args, pc, n_jobs, intercept_test, confounding_vars,
         covars_orthonormalized, targetvars_resid_covars,
         testedvars_resid_covars, scores_original_data, chunks, completed,
         scores_as_ranks, result, prev>>

vars == <<ols, loader>>

design == <<intercept_test, confounding_vars, covars_orthonormalized,
            targetvars_resid_covars, testedvars_resid_covars>>

NoResult ==
    [status |-> "none", error |-> "", neg_log10_pvals |-> <<>>,
     score_orig_data |-> <<>>, h0_fmax |-> <<>>]

NoCall ==
    [called |-> FALSE, args |-> <<>>, n_jobs |-> 0, seeds |-> <<>>,
     sizes |-> <<>>, scores_as_ranks |-> <<>>, result |-> NoResult]

Data == DataSets[args.data]

Raised(error) == [NoResult EXCEPT !.status = "raised", !.error = error]

Returned(pvals, scores, h0) ==
    [NoResult EXCEPT !.status = "returned", !.neg_log10_pvals = pvals,
                     !.score_orig_data = scores, !.h0_fmax = h0]

Entered(a) ==
    /\ args = a
    /\ pc = "check_n_jobs"
    /\ n_jobs = a.n_jobs
    /\ intercept_test = FALSE
    /\ confounding_vars = None
    /\ covars_orthonormalized = None
    /\ targetvars_resid_covars = <<>>
    /\ testedvars_resid_covars = <<>>
    /\ scores_original_data = <<>>
    /\ chunks = <<>>
    /\ completed = <<>>
    /\ scores_as_ranks = <<>>
    /\ result = NoResult

Init ==
    /\ cpu_count \in CpuCounts
    /\ prev = NoCall
    /\ \E a \in Arguments : Entered(a)
    /\ NoLoad

\* lines 309-317: n_jobs == 0 is refused, any other n_jobs is resolved
CheckNJobs ==
    /\ pc = "check_n_jobs"
    /\ IF NJobsIsInvalid(n_jobs)
       THEN /\ pc' = "raised"
            /\ result' = Raised("n_jobs")
            /\ UNCHANGED n_jobs
       ELSE /\ pc' = "check_target"
            /\ n_jobs' = ResolveNJobs(n_jobs, cpu_count)
            /\ UNCHANGED result
    /\ UNCHANGED <<loader, cpu_count, args, design, scores_original_data, chunks,
                   completed, scores_as_ranks, prev>>

\* lines 319-323: the target must have two dimensions
CheckTarget ==
    /\ pc = "check_target"
    /\ IF TargetIs2D(Data.target_vars)
       THEN pc' = "prepare" /\ UNCHANGED result
       ELSE pc' = "raised" /\ result' = Raised("target_vars")
    /\ UNCHANGED <<loader, cpu_count, args, n_jobs, design, scores_original_data,
                   chunks, completed, scores_as_ranks, prev>>

\* lines 324-387: intercept test, intercept, residuals
Prepare ==
    /\ pc = "prepare"
    /\ LET tested == TestedVars2D(Data.tested_vars)
           it == InterceptTest(tested)
           confounds == AddIntercept(Data.confounding_vars,
                                     args.model_intercept, it, NRows(tested))
           covars == CovarsOrthonormalized(confounds)
       IN  /\ intercept_test' = it
           /\ confounding_vars' = confounds
           /\ covars_orthonormalized' = covars
           /\ targetvars_resid_covars' =
                  TargetvarsResidCovars(Data.target_vars.data, covars)
           /\ testedvars_resid_covars' = TestedvarsResidCovars(tested, covars)
    /\ pc' = "score"
    /\ UNCHANGED <<loader, cpu_count, args, n_jobs, scores_original_data, chunks,
                   completed, scores_as_ranks, result, prev>>

\* lines 390-392: the F-scores of the original data
ScoreOriginal ==
    /\ pc = "score"
    /\ scores_original_data' =
           ScoresOriginalData(testedvars_resid_covars,
                              targetvars_resid_covars, covars_orthonormalized)
    /\ pc' = "schedule"
    /\ UNCHANGED <<loader, cpu_count, args, n_jobs, design, chunks, completed,
                   scores_as_ranks, result, prev>>

\* lines 396-409: the chunks are handed to the workers, or the call returns
Schedule ==
    /\ pc = "schedule"
    /\ LET n_perm_chunks == NPermChunks(args.n_perm, n_jobs)
       IN  IF n_perm_chunks = <<>>
           THEN /\ pc' = "returned"
                /\ result' = Returned(<<>>, scores_original_data, <<>>)
                /\ UNCHANGED chunks
           ELSE /\ pc' = "parallel"
                /\ chunks' = [k \in 1..Len(n_perm_chunks) |->
                       NewChunk(n_perm_chunks[k],
                                ChunkRandomState(args.random_state, k),
                                testedvars_resid_covars,
                                Transpose(targetvars_resid_covars),
                                covars_orthonormalized)]
                /\ UNCHANGED result
    /\ UNCHANGED <<loader, cpu_count, args, n_jobs, design, scores_original_data,
                   completed, scores_as_ranks, prev>>

\* lines 197-205: a worker starts chunk k
StartChunk(k) ==
    /\ pc = "parallel"
    /\ chunks[k].status = "pending"
    /\ Cardinality({l \in 1..Len(chunks) : chunks[l].status = "running"})
           < n_jobs
    /\ chunks' = [chunks EXCEPT ![k] = StartedChunk(chunks[k])]
    /\ UNCHANGED <<loader, cpu_count, args, pc, n_jobs, design, scores_original_data,
                   completed, scores_as_ranks, result, prev>>

\* lines 206-234: one permutation of chunk k; the chunk returns after its last
PermuteStep(k) ==
    /\ pc = "parallel"
    /\ chunks[k].status = "running"
    /\ IF PermutationRaises(chunks[k], intercept_test)
       THEN /\ chunks' = [chunks EXCEPT ![k].status = "raised"]
            /\ UNCHANGED completed
            /\ UNCHANGED <<scores_original_data, testedvars_resid_covars,
                           targetvars_resid_covars, covars_orthonormalized>>
       ELSE /\ chunks' = [chunks EXCEPT ![k] =
                   Permuted(chunks[k], intercept_test, scores_original_data)]
            /\ completed' = IF chunks'[k].status = "returned"
                            THEN Append(completed, k) ELSE completed
            /\ With(ReceivedArrays(
                         [scores_original_data |-> scores_original_data,
                          tested_vars |-> testedvars_resid_covars,
                          target_vars |-> Transpose(targetvars_resid_covars),
                          confounding_vars |-> covars_orthonormalized],
                         chunks'[k]),
                    LAMBDA received :
                        /\ scores_original_data' =
                               received.scores_original_data
                        /\ testedvars_resid_covars' = received.tested_vars
                        /\ targetvars_resid_covars' =
                               Transpose(received.target_vars)
                        /\ covars_orthonormalized' =
                               received.confounding_vars)
    /\ UNCHANGED <<loader, cpu_count, args, pc, n_jobs, intercept_test,
                   confounding_vars, scores_as_ranks, result, prev>>

\* line 404: the exception of a chunk is raised by permuted_ols
Propagate ==
    /\ pc = "parallel"
    /\ \E k \in 1..Len(chunks) : chunks[k].status = "raised"
    /\ pc' = "raised"
    /\ result' = Raised("broadcast")
    /\ completed' = <<>>
    /\ UNCHANGED <<loader, cpu_count, args, n_jobs, design, scores_original_data,
                   chunks, scores_as_ranks, prev>>

\* lines 410-419: all chunks returned, their results are reduced
Reduce ==
    /\ pc = "parallel"
    /\ \A k \in 1..Len(chunks) : chunks[k].status = "returned"
    /\ LET rets == ParallelResults(chunks, completed)
           h0_fmax == H0Fmax(rets)
           ranks == SumRanks(rets, ZeroRanks(NCols(testedvars_resid_covars),
                                             NRows(targetvars_resid_covars)))
       IN  /\ scores_as_ranks' = ranks
           /\ result' = Returned(NegLog10(Pvals(args.n_perm, ranks)),
                                 scores_original_data, h0_fmax[1])
    /\ pc' = "returned"
    /\ completed' = <<>>
    /\ UNCHANGED <<loader, cpu_count, args, n_jobs, design, scores_original_data,
                   chunks, prev>>

\* permuted_ols returned and the caller calls it again on the same data,
\* with another n_jobs or another random_state, or with the same arguments
CallAgain ==
    /\ pc = "returned"
    /\ ~prev.called
    /\ prev' = [called |-> TRUE, args |-> args, n_jobs |-> n_jobs,
                seeds |-> [k \in 1..Len(chunks) |-> chunks[k].random_state],
                sizes |-> [k \in 1..Len(chunks) |-> chunks[k].n_perm_chunk],
                scores_as_ranks |-> scores_as_ranks, result |-> result]
    /\ \E nj \in NJobsValues, rs \in RandomStates :
           /\ nj = args.n_jobs \/ rs = args.random_state
           /\ args' = [args EXCEPT !.n_jobs = nj, !.random_state = rs]
           /\ n_jobs' = nj
    /\ pc' = "check_n_jobs"
    /\ intercept_test' = FALSE
    /\ confounding_vars' = None
    /\ covars_orthonormalized' = None
    /\ targetvars_resid_covars' = <<>>
    /\ testedvars_resid_covars' = <<>>
    /\ scores_original_data' = <<>>
    /\ chunks' = <<>>
    /\ completed' = <<>>
    /\ scores_as_ranks' = <<>>
    /\ result' = NoResult
    /\ UNCHANGED <<loader, cpu_count>>

Next ==
    \/ CheckNJobs
    \/ CheckTarget
    \/ Prepare
    \/ ScoreOriginal
    \/ Schedule
    \/ \E k \in 1..Len(chunks) : StartChunk(k)
    \/ \E k \in 1..Len(chunks) : PermuteStep(k)
    \/ Propagate
    \/ Reduce

\* one call of permuted_ols
Spec == Init /\ [][Next]_vars

NextPair ==
    \/ Next
    \/ CallAgain

\* the machine of the two calls has the largest number of CPUs
InitPair == Init /\ cpu_count = MaxCpu

\* two successive calls of permuted_ols on the same data, on one machine
SpecPair == InitPair /\ [][NextPair]_vars

(***************************************************************************)
(* Confounds.load on one file: load, _load_single, _load_confound.         *)
(***************************************************************************)
\* permuted_ols is not called
NoPermutedOls ==
    /\ cpu_count = 1
    /\ prev = NoCall
    /\ args = <<>>
    /\ pc = "none"
    /\ n_jobs = 0
    /\ intercept_test = FALSE
    /\ confounding_vars = None
    /\ covars_orthonormalized = None
    /\ targetvars_resid_covars = <<>>
    /\ testedvars_resid_covars = <<>>
    /\ scores_original_data = <<>>
    /\ chunks = <<>>
    /\ completed = <<>>
    /\ scores_as_ranks = <<>>
    /\ result = NoResult

\* load is called on the file f of the object obj
Called(obj, f) ==
    /\ NoPermutedOls
    /\ self = obj
    /\ file = f
    /\ load_pc = "load"
    /\ confound = 0
    /\ confounds_df = <<>>
    /\ scrubbed = <<>>
    /\ raised = NoError

InitLoad == \E obj \in ConfoundsObjects, f \in Files : Called(obj, f)

InitMissing ==
    \E obj \in MissingObjects(MaxStrategies), f \in MissingFiles(MaxMissing) :
        Called(obj, f)

InitScrub == \E obj \in ScrubObjects, f \in ScrubFiles(MaxScans) : Called(obj, f)

\* load, lines 292-301: the lists of the missing confounds are emptied and
\* _load_single is entered for the file
Load ==
    /\ load_pc = "load"
    /\ self' = [self EXCEPT !.missing_confounds_ = <<>>,
                            !.missing_keys_ = <<>>]
    /\ load_pc' = "confounds_to_df"
    /\ UNCHANGED <<ols, file, confound, confounds_df, scrubbed, raised>>

\* _load_single, lines 317-321, with _check_images and _get_json: the AROMA
\* image is looked for when ica_aroma is "full", and the json is read; a
\* missing json is an error for the anatomical compcor only
ConfoundsToDf ==
    /\ load_pc = "confounds_to_df"
    /\ LET flag_acompcor ==
               "compcor" \in Range(self.strategy) /\ self.compcor = "anat"
           flag_full_aroma ==
               /\ "ica_aroma" \in Range(self.strategy)
               /\ PyEq(self.ica_aroma, PyStr("full"))
       IN  IF flag_full_aroma /\ ~file.has_aroma
           THEN /\ load_pc' = "raised"
                /\ raised' = Error("ValueError", "aroma", <<>>, <<>>)
                /\ UNCHANGED <<self, confound, confounds_df>>
           ELSE IF ~file.has_json /\ flag_acompcor
           THEN /\ load_pc' = "raised"
                /\ raised' = Error("ValueError", "json", <<>>, <<>>)
                /\ UNCHANGED <<self, confound, confounds_df>>
           ELSE /\ self' = [self EXCEPT !.json_ = file.json]
                /\ confounds_df' = <<>>
                /\ confound' = 1
                /\ load_pc' = "load_confound"
                /\ UNCHANGED raised
    /\ UNCHANGED <<ols, file, scrubbed>>

\* _load_single, lines 323-325, with _load_confound: one strategy is loaded;
\* MissingConfound is caught and recorded, any other exception leaves load
LoadConfound ==
    /\ load_pc = "load_confound"
    /\ confound <= Len(self.strategy)
    /\ LET loaded == load_by_name(self, self.strategy[confound], file)
       IN  IF loaded.raises \notin {"", "MissingConfound"}
           THEN /\ load_pc' = "raised"
                /\ raised' = Error(loaded.raises, self.strategy[confound],
                                   <<>>, <<>>)
                /\ UNCHANGED <<self, confound, confounds_df, scrubbed>>
           ELSE /\ self' = [self EXCEPT
                       !.missing_confounds_ = @ \o loaded.params,
                       !.missing_keys_ = @ \o loaded.keywords]
                /\ confounds_df' = confounds_df \o loaded.columns
                /\ scrubbed' = IF self.strategy[confound] = "scrub"
                               THEN loaded.outliers ELSE scrubbed
                /\ confound' = confound + 1
                /\ UNCHANGED <<load_pc, raised>>
    /\ UNCHANGED <<ols, file>>

\* _load_single, lines 327-329, and load, lines 303-312: _check_error, then
\* the columns are returned and assigned to the object
CheckError ==
    /\ load_pc = "load_confound"
    /\ confound > Len(self.strategy)
    /\ IF self.missing_confounds_ # <<>> \/ self.missing_keys_ # <<>>
       THEN /\ load_pc' = "raised"
            /\ raised' = Error("ValueError", "missing",
                               self.missing_confounds_, self.missing_keys_)
            /\ UNCHANGED self
       ELSE /\ load_pc' = "returned"
            /\ self' = [self EXCEPT !.assigned = TRUE, !.columns_ = confounds_df]
            /\ UNCHANGED raised
    /\ UNCHANGED <<ols, file, confound, confounds_df, scrubbed>>

NextLoad ==
    \/ Load
    \/ ConfoundsToDf
    \/ LoadConfound
    \/ CheckError

\* one call of Confounds(...).load(file)
SpecLoad == InitLoad /\ [][NextLoad]_vars

\* one call of load on a file that may lack columns of any strategy
SpecMissing == InitMissing /\ [][NextLoad]_vars

\* one call of load with the strategy "scrub"
SpecScrub == InitScrub /\ [][NextLoad]_vars

(***************************************************************************)
(* Properties.                                                             *)
(***************************************************************************)
ChunkSeeds == [k \in 1..Len(chunks) |-> chunks[k].random_state]

RECURSIVE SumSizes(_)
SumSizes(cs) ==
    IF cs = <<>> THEN 0 ELSE cs[1].n_perm_chunk + SumSizes(Tail(cs))

Finished == pc \in {"returned", "raised"}

Max2(a, b) == IF a < b THEN b ELSE a

\* C1: in one run of permuted_ols no two chunks receive the same seed for
\* their random generator.
C1_ChunkSeedsDistinct ==
    \A k, l \in 1..Len(chunks) :
        k # l => chunks[k].random_state # chunks[l].random_state

\* C2: for a fixed random_state and a fixed n_perm > 0, the call that runs
\* with one worker and the call that runs with four workers end with the same
\* aggregate rank accumulator, hence with the same p-values.
C2_OneWorkerVsFourWorkers ==
    (/\ pc = "returned"
     /\ prev.called
     /\ args.n_perm > 0
     /\ prev.args.random_state = args.random_state
     /\ {prev.n_jobs, n_jobs} = {1, 4})
    => /\ scores_as_ranks = prev.scores_as_ranks
       /\ result.neg_log10_pvals = prev.result.neg_log10_pvals

\* C3: the seeds of the chunks are derived from the random_state argument:
\* two calls that differ in random_state only do not hand the same seeds to
\* their chunks.
C3_SeedsFollowRandomState ==
    (/\ prev.called
     /\ chunks # <<>>
     /\ prev.args.n_jobs = args.n_jobs
     /\ prev.args.random_state # args.random_state)
    => ChunkSeeds # prev.seeds

\* C4: permuted_ols is deterministic: a call with the arguments of an earlier
\* call on the same machine ends as the earlier call did, with identical
\* p-values, F-scores and null distribution, whatever the order in which the
\* workers ran the chunks.
C4_Deterministic ==
    (prev.called /\ prev.args = args /\ Finished) => result = prev.result

C4_Witness ==
    /\ prev.called
    /\ prev.args = args
    /\ pc = "returned"
    /\ Len(chunks) >= 2
    /\ \E k \in 1..Len(chunks) : chunks[k].n_perm_chunk >= 2
    /\ Len(result.h0_fmax) = args.n_perm

\* C5: for n_perm > 0 every aggregated rank lies in 0..n_perm, and the
\* p-value of every cell is (n_perm + 1 - rank) / (n_perm + 1), which lies
\* in [1 / (n_perm + 1), 1] and is never zero.
C5_RankAndPvalueBounds ==
    (pc = "returned" /\ args.n_perm > 0)
    => \A r \in 1..NRows(scores_as_ranks), d \in 1..NCols(scores_as_ranks) :
         LET rank == scores_as_ranks[r][d]
             p == result.neg_log10_pvals[r][d].neg_log10_of
         IN  /\ 0 <= rank
             /\ rank <= args.n_perm
             /\ p[2] * (args.n_perm + 1 - rank) = p[1] * (args.n_perm + 1)
             /\ p # Zero
             /\ ~QLess(p, Q(1, args.n_perm + 1))
             /\ ~QLess(One, p)

C5_Witness ==
    /\ pc = "returned"
    /\ args.n_perm > 1
    /\ Len(chunks) > 1
    /\ \E r \in 1..NRows(scores_as_ranks), d \in 1..NCols(scores_as_ranks) :
           /\ scores_as_ranks[r][d] = args.n_perm
           /\ result.neg_log10_pvals[r][d].neg_log10_of
                  = Q(1, args.n_perm + 1)
    /\ \E r \in 1..NRows(scores_as_ranks), d \in 1..NCols(scores_as_ranks) :
           scores_as_ranks[r][d] = 0

\* C6: for n_perm > 0 the sizes of the chunks handed to the workers sum to
\* n_perm, and the returned null distribution holds n_perm values.
C6_ChunksCoverBudget ==
    /\ (args.n_perm > 0 /\ chunks # <<>>) => SumSizes(chunks) = args.n_perm
    /\ (args.n_perm > 0 /\ pc = "returned")
           => /\ chunks # <<>>
              /\ Len(result.h0_fmax) = args.n_perm

C6_Witness ==
    /\ pc = "returned"
    /\ Len(chunks) >= 2
    /\ args.n_perm % n_jobs # 0
    /\ args.n_perm > n_jobs
    /\ Len(result.h0_fmax) = args.n_perm

\* C7: a negative n_jobs = -k on a machine with c CPUs is resolved to
\* max(1, c - (k - 1)) workers, never more than c.
C7_NegativeNJobs ==
    (args.n_jobs < 0 /\ pc # "check_n_jobs")
    => /\ n_jobs = Max2(1, cpu_count - ((-args.n_jobs) - 1))
       /\ n_jobs <= cpu_count

C9_TargetMustBe2D ==
    (/\ args.n_jobs # 0
     /\ Data.target_vars.ndim # 2
     /\ pc \notin {"check_n_jobs", "check_target"})
    => /\ pc = "raised"
       /\ result.status = "raised"
       /\ result.error = "target_vars"
       /\ scores_original_data = <<>>
       /\ chunks = <<>>

C9_Witness ==
    /\ args.n_jobs # 0
    /\ Data.target_vars.ndim = 1
    /\ args.n_perm <= 0
    /\ pc = "raised"
    /\ result.error = "target_vars"

\* C10: for valid arguments and n_perm <= 0, permuted_ols creates no chunk and
\* returns an empty array of p-values, an empty null distribution and the
\* scores _f_score gives on the prepared data.
C10_NoPermutation ==
    (args.n_jobs # 0 /\ Data.target_vars.ndim = 2 /\ args.n_perm <= 0)
    => /\ chunks = <<>>
       /\ pc # "raised"
       /\ pc = "returned"
              => /\ result.status = "returned"
                 /\ result.neg_log10_pvals = <<>>
                 /\ result.h0_fmax = <<>>
                 /\ result.score_orig_data =
                        f_score(testedvars_resid_covars,
                                Transpose(targetvars_resid_covars),
                                covars_orthonormalized)

C10_Witness ==
    /\ pc = "returned"
    /\ args.n_perm <= 0
    /\ covars_orthonormalized # None
    /\ NCols(covars_orthonormalized) = 2
    /\ result.score_orig_data # <<>>
    /\ result.h0_fmax = <<>>

\* the number of regressors and of descriptors of the call
NRegressors == NCols(TestedVars2D(Data.tested_vars))
NDescriptors == NCols(Data.target_vars.data)

\* the vector v as a matrix of one column
ColumnMatrix(v) == Transpose(<<v>>)

\* whether the sequence of floats s is in non-decreasing order
NonDecreasing(s) ==
    \A i \in 1..(Len(s) - 1) : ~QLess(s[i + 1], s[i]) /\ ~IsNaN(s[i])

\* C11: for n_perm > 0 the null distribution returned by permuted_ols (the
\* third value returned) is sorted in non-decreasing order.
C11_NullDistributionSorted ==
    (pc = "returned" /\ args.n_perm > 0) => NonDecreasing(result.h0_fmax)

\* C12: the matrix of F-scores returned by permuted_ols has one row per
\* regressor and one column per descriptor, as the matrix of p-values has:
\* entry [r][d] of both concerns regressor r and descriptor d.
C12_ScoresRegressorsByDescriptors ==
    pc = "returned"
    => /\ NRows(result.score_orig_data) = NRegressors
       /\ NCols(result.score_orig_data) = NDescriptors
       /\ args.n_perm > 0
              => /\ NRows(result.neg_log10_pvals) = NRegressors
                 /\ NCols(result.neg_log10_pvals) = NDescriptors
       /\ \A r \in 1..NRegressors, d \in 1..NDescriptors :
              result.score_orig_data[r][d] =
                  f_score(ColumnMatrix(Column(testedvars_resid_covars, r)),
                          ColumnMatrix(targetvars_resid_covars[d]),
                          covars_orthonormalized)[1][1]

\* C13: with two or more regressors and n_perm > 0, permuted_ols returns one
\* null distribution per regressor: for every regressor, the n_perm maximal
\* F-scores of that regressor, one per permutation.
C13_NullDistributionPerRegressor ==
    (pc = "returned" /\ args.n_perm > 0 /\ NRegressors >= 2)
    => /\ Len(result.h0_fmax) = NRegressors
       /\ \A r \in 1..NRegressors :
              /\ Len(result.h0_fmax[r]) = args.n_perm
              /\ result.h0_fmax[r] = H0Fmax(chunks)[r]

\* the arrays permuted_ols hands to every chunk
ChunkTarget == Transpose(targetvars_resid_covars)

\* the chunks that went through at least one permutation of their loop
Permuting == {k \in 1..Len(chunks) : chunks[k].i >= 1}

Negated(row) == Vec([j \in 1..Len(row) |-> QNeg(row[j])])

\* C15: in a chunk run with intercept_test true, after every permutation of
\* the loop each row of the permuted target is the original row multiplied by
\* +1 or by -1: no row moves and no entry changes in absolute value.
C15_SignFlipKeepsRows ==
    \A k \in Permuting :
        intercept_test
        => /\ NRows(chunks[k].target_vars) = NRows(ChunkTarget)
           /\ \A i \in 1..NRows(ChunkTarget) :
                  \/ chunks[k].target_vars[i] = ChunkTarget[i]
                  \/ chunks[k].target_vars[i] = Negated(ChunkTarget[i])

\* the bijections of the sample indices 1..n
Bijections(n) ==
    {p \in [1..n -> 1..n] : \A i, j \in 1..n : i # j => p[i] # p[j]}

\* C16: in a chunk run with intercept_test false, after any number of
\* permutations of the loop the rows of tested_vars are the original rows
\* rearranged by a bijection of the samples, the rows of the confounds (when
\* there are confounds) are rearranged by the same bijection, and the target
\* handed to _f_score is the original target.
C16_ShuffleIsJointBijection ==
    \A k \in Permuting :
        ~intercept_test
        => /\ chunks[k].target_vars = ChunkTarget
           /\ \E p \in Bijections(NRows(testedvars_resid_covars)) :
                  /\ chunks[k].tested_vars =
                         ShuffleRows(testedvars_resid_covars, p)
                  /\ chunks[k].confounding_vars =
                         IF covars_orthonormalized = None THEN None
                         ELSE ShuffleRows(covars_orthonormalized, p)

C16_Witness ==
    \E k \in Permuting :
        /\ ~intercept_test
        /\ chunks[k].i >= 2
        /\ covars_orthonormalized # None
        /\ NCols(covars_orthonormalized) = 2
        /\ chunks[k].confounding_vars # covars_orthonormalized
        /\ chunks[k].tested_vars # testedvars_resid_covars

\* the chunk results cs taken in the given order
Reordered(cs, order) == [i \in 1..Len(order) |-> cs[order[i]]]

NoRanks ==
    ZeroRanks(NCols(testedvars_resid_covars), NRows(targetvars_resid_covars))

AllChunksReturned ==
    pc = "parallel" /\ \A k \in 1..Len(chunks) : chunks[k].status = "returned"

\* the number of permutations whose maximal score for regressor r, in the
\* rows h0 of maxima, is strictly below the original score of the cell (r, d)
PermutationsBelow(h0, scores, r, d) ==
    Cardinality({p \in 1..Len(h0[r]) : QLess(h0[r][p], scores[d][r])})

\* C17: after the reduction, the rank of every cell (r, d) is the number of
\* permutations of the whole run whose maximal F-score for regressor r is
\* strictly smaller than the original score of (r, d), ties not counted,
\* whatever the split into chunks; and the sum of the ranks of the chunks
\* does not depend on the order in which the chunks are summed.
C17_RanksCountPermutationsBelow ==
    /\ (pc = "returned" /\ args.n_perm > 0)
       => \A r \in 1..NRegressors, d \in 1..NDescriptors :
              /\ Len(H0Fmax(chunks)[r]) = args.n_perm
              /\ scores_as_ranks[r][d] =
                     PermutationsBelow(H0Fmax(chunks), scores_original_data,
                                       r, d)
    /\ AllChunksReturned
       => SumRanks(Reordered(chunks, completed), NoRanks)
              = SumRanks(chunks, NoRanks)

C17_Witness ==
    /\ pc = "returned"
    /\ Len(chunks) >= 2
    /\ NRegressors = 2
    /\ \E k \in 1..Len(chunks) : chunks[k].n_perm_chunk >= 2
    /\ \E r \in 1..NRegressors, d \in 1..NDescriptors, p \in 1..args.n_perm :
           /\ H0Fmax(chunks)[r][p] = scores_original_data[d][r]
           /\ scores_as_ranks[r][d] < args.n_perm
    /\ \E r \in 1..NRegressors, d \in 1..NDescriptors :
           scores_as_ranks[r][d] \in 1..(args.n_perm - 1)

ChunkSizes == [k \in 1..Len(chunks) |-> chunks[k].n_perm_chunk]

Scheduled ==
    pc \in {"parallel", "returned"} \/ (pc = "raised" /\ chunks # <<>>)

\* C18: for n_perm > 0 and W workers after resolution (W >= 1): when
\* n_perm <= W there are n_perm chunks of one permutation each; otherwise
\* there are W chunks, the first W - 1 of floor(n_perm / W) permutations and
\* the last of floor(n_perm / W) + (n_perm mod W); every chunk performs at
\* least one permutation.
C18_ChunkSizes ==
    (Scheduled /\ args.n_perm > 0)
    => /\ n_jobs >= 1
       /\ \A k \in 1..Len(chunks) : ChunkSizes[k] >= 1
       /\ IF args.n_perm <= n_jobs
          THEN /\ Len(chunks) = args.n_perm
               /\ \A k \in 1..Len(chunks) : ChunkSizes[k] = 1
          ELSE /\ Len(chunks) = n_jobs
               /\ \A k \in 1..(n_jobs - 1) :
                      ChunkSizes[k] = args.n_perm \div n_jobs
               /\ ChunkSizes[n_jobs] =
                      (args.n_perm \div n_jobs) + (args.n_perm % n_jobs)

C18_Witness ==
    /\ pc = "returned"
    /\ args.n_perm = 3
    /\ n_jobs = 2
    /\ ChunkSizes = <<1, 2>>

\* the call went through the preparation of the design
Prepared ==
    pc \in {"score", "schedule", "parallel", "returned"}
    \/ (pc = "raised" /\ chunks # <<>>)

\* the number of columns of the confounds given by the caller, and of the
\* confounds permuted_ols works with (0 when there are none)
GivenConfounds ==
    IF Data.confounding_vars.ndim = 0 THEN 0
    ELSE NCols(Data.confounding_vars.data)

UsedConfounds == IF confounding_vars = None THEN 0 ELSE NCols(confounding_vars)

\* tested_vars has one regressor whose values are all identical
OneConstantRegressor ==
    LET tested == TestedVars2D(Data.tested_vars)
    IN  /\ NCols(tested) = 1
        /\ \A i, j \in 1..NRows(tested) : tested[i][1] = tested[j][1]

\* C19: permuted_ols takes the sign-flip scheme (intercept_test true) exactly
\* when tested_vars has one regressor whose values are all identical, and the
\* label shuffle otherwise; it appends one constant column to the confounds
\* exactly when model_intercept is true and intercept_test is false: the
\* number of confound columns grows by one in that case, and is unchanged
\* (with possibly no confounds at all) in every other case.
C19_SchemeAndIntercept ==
    Prepared
    => /\ intercept_test <=> OneConstantRegressor
       /\ UsedConfounds =
              IF args.model_intercept /\ ~intercept_test
              THEN GivenConfounds + 1 ELSE GivenConfounds
       /\ (args.model_intercept /\ ~intercept_test)
              => \A i \in 1..NRows(confounding_vars) :
                     confounding_vars[i][UsedConfounds] = One
       /\ \A k \in Permuting :
              IF intercept_test
              THEN chunks[k].tested_vars = testedvars_resid_covars
              ELSE chunks[k].target_vars = ChunkTarget

C19_Witness ==
    /\ pc = "returned"
    /\ args.model_intercept
    /\ intercept_test
    /\ confounding_vars = None
    /\ Permuting # {}

Square(x) == QMul(x, x)

\* the sum of the squared dot products of the vector v with the columns of m
SumSquaredDots(v, m) ==
    QSum(Vec([c \in 1..NCols(m) |-> Square(Dot(v, Column(m, c)))]))

\* (b2 / rss) * dof for the target column of a cell whose squared dot
\* product with the regressor column is b2
CellScoreOf(b2, target, covars, n_samples) ==
    LET a2 == SumSquaredDots(target, covars)
        rss == IF covars = None THEN QSub(One, b2)
               ELSE QSub(QSub(One, a2), b2)
        n_covars == IF covars = None THEN 0 ELSE NCols(covars)
        dof == n_samples - 1 - n_covars
    IN  QMul(QDiv(b2, rss), Rat(dof))

\* (b2 / rss) * dof for column d of vars2 and column r of vars1
CellScore(vars1, vars2, covars, r, d) ==
    CellScoreOf(Square(Dot(Column(vars2, d), Column(vars1, r))),
                Column(vars2, d), covars, NRows(vars2))

\* the maximum over the descriptors of the scores of regressor r
MaxCellScore(vars1, vars2, covars, r) ==
    QMax(Vec([d \in 1..NCols(vars2) |-> CellScore(vars1, vars2, covars, r, d)]))

\* C20: on the fast path _f_score returns, for every pair of a target column
\* and a regressor column, (b2 / rss) * dof, where b2 is the square of their
\* dot product, rss is 1 - b2 without confounds and 1 - a2 - b2 with
\* confounds (a2 the sum of the squared dot products of the target with the
\* confound columns), and dof is n_samples - 1 - the number of confound
\* columns.  This holds of the scores of the original data and of the scores
\* of every permutation, seen through their maxima: the former are compared
\* when they are computed and when they are returned, the latter in every
\* chunk that runs or is the last that returned (the chunks that returned
\* before were compared when they returned).
C20_FastPathScore ==
    /\ (scores_original_data # <<>> /\ pc # "parallel")
       => \A r \in 1..NRegressors, d \in 1..NDescriptors :
              scores_original_data[d][r] =
                  CellScore(testedvars_resid_covars, ChunkTarget,
                            covars_orthonormalized, r, d)
    /\ \A k \in Permuting :
           (\/ chunks[k].status = "running"
            \/ (/\ chunks[k].status = "returned"
                /\ completed # <<>>
                /\ k = completed[Len(completed)]))
           => \A r \in 1..NRegressors :
                  chunks[k].h0_fmax_part[chunks[k].i][r] =
                      MaxCellScore(chunks[k].tested_vars,
                                   chunks[k].target_vars,
                                   chunks[k].confounding_vars, r)

C20_Witness ==
    /\ covars_orthonormalized # None
    /\ NCols(covars_orthonormalized) = 2
    /\ \E k \in Permuting :
           /\ chunks[k].i >= 2
           /\ chunks[k].h0_fmax_part[2] # chunks[k].h0_fmax_part[1]
    /\ \E r \in 1..NRegressors, d \in 1..NDescriptors :
           /\ QLess(Zero, scores_original_data[d][r])
           /\ scores_original_data[d][r][2] # 0

\* the masks of the anatomical components the object is configured for
ConfiguredMasks ==
    IF self.acompcor_combined THEN {"combined"} ELSE {"WM", "CSF"}

\* the anatomical components the json lists for the configured masks
ListedAnatomical ==
    {k \in DOMAIN self.json_.keys :
        IsCompcorOf("a", k) /\ self.json_.keys[k].Mask.str \in ConfiguredMasks}

ListedTemporal == {k \in DOMAIN self.json_.keys : IsCompcorOf("t", k)}

\* C14: with "compcor" in the strategy and compcor = "full", _load_compcor
\* selects the anatomical and the temporal components: the columns selected
\* contain the a_comp_cor columns the json lists for the configured mask as
\* well as the t_comp_cor columns (all of them when n_compcor is "auto", and
\* some of each kind that is listed for any n_compcor).
C14_FullCompcorHasBoth ==
    (/\ load_pc = "returned"
     /\ "compcor" \in Range(self.strategy)
     /\ self.compcor = "full")
    => /\ PyEq(self.n_compcor, PyStr("auto"))
              => (ListedAnatomical \cup ListedTemporal) \subseteq
                     Range(self.columns_)
       /\ ListedAnatomical # {}
              => ListedAnatomical \cap Range(self.columns_) # {}
       /\ ListedTemporal # {}
              => ListedTemporal \cap Range(self.columns_) # {}

\* the divisors of _f_score for the given data: one per cell of the score
Divisors(vars1, vars2, covars) == Rss(B2(vars1, vars2), vars2, covars)

AllPositive(m) ==
    \A i \in 1..NRows(m), j \in 1..NCols(m) : QLess(Zero, m[i][j])

\* C21: on the fast path of _f_score the residual sum of squares that
\* divides b2 is floored above zero: for every pair of a target and a
\* regressor the divisor is strictly positive, on the original data and in
\* every permutation of a worker, so that no division by zero occurs.
C21_RssFloored ==
    /\ scores_original_data # <<>>
       => AllPositive(Divisors(testedvars_resid_covars, ChunkTarget,
                               covars_orthonormalized))
    /\ \A k \in Permuting :
           chunks[k].status # "raised"
           => AllPositive(Divisors(chunks[k].tested_vars,
                                   chunks[k].target_vars,
                                   chunks[k].confounding_vars))

\* the arrays of permuted_ols that every chunk receives
ChunkInputs ==
    <<scores_original_data, testedvars_resid_covars, targetvars_resid_covars,
      covars_orthonormalized>>

Attempt(k) ==
    load_by_name([self EXCEPT !.json_ = file.json], self.strategy[k], file)

\* the strategies of the object of which the file lacks columns
Lacking ==
    {k \in 1..Len(self.strategy) :
        Attempt(k).raises \in {"MissingConfound", "KeyError"}}

\* the columns of strategy k that the file lacks: the parameters and the
\* keywords
LackingParams(k) ==
    IF self.strategy[k] = "scrub"
    THEN {"framewise_displacement", "std_dvars"} \ Range(file.columns)
    ELSE Range(Attempt(k).params)

LackingKeywords(k) == Range(Attempt(k).keywords)

\* load has ended, and nothing but columns is missing: the images and the
\* json are there and every strategy has its option
LoadEndedOnColumns ==
    /\ load_pc \in {"raised", "returned"}
    /\ raised.about \notin {"aroma", "json"}
    /\ \A k \in 1..Len(self.strategy) : Attempt(k).raises # "ValueError"

\* C23: when the file lacks columns of one or more strategies, _load_single
\* still attempts every strategy of the list and then raises one error that
\* names the missing parameters and keywords of all the failing strategies;
\* load does not assign confounds_ nor columns_.
C23_AllMissingNamed ==
    (LoadEndedOnColumns /\ Lacking # {})
    => /\ load_pc = "raised"
       /\ confound = Len(self.strategy) + 1
       /\ raised.type = "ValueError"
       /\ \A k \in Lacking :
              /\ LackingParams(k) \subseteq Range(raised.missing_confounds)
              /\ LackingKeywords(k) \subseteq Range(raised.missing_keys)
       /\ ~self.assigned
       /\ self.columns_ = <<>>


\* the volumes above a threshold in the file: what _optimize_scrub is given
CombinedOutliers == Range(file.fd_outliers) \cup Range(file.dvars_outliers)

\* _load_scrub has returned the regressors of the full scrubbing of a file
\* with outliers
FullyScrubbed ==
    /\ load_pc \in {"load_confound", "returned"}
    /\ self.strategy = <<"scrub">>
    /\ confound = 2
    /\ self.scrub = "full"
    /\ CombinedOutliers # {}

\* the volumes a..b are a maximal run of volumes that are not scrubbed
KeptRun(a, b) ==
    /\ a <= b
    /\ \A v \in a..b : v \notin Range(scrubbed)
    /\ a = 0 \/ (a - 1) \in Range(scrubbed)
    /\ b = file.n_scans - 1 \/ (b + 1) \in Range(scrubbed)

\* C24: for every non-empty sorted set of outliers within 0..n_scans-1,
\* _optimize_scrub returns a sorted list without duplicates that holds its
\* input, lies within 0..n_scans-1, and leaves no run of consecutive volumes
\* that are not outliers (at the start, between two outliers, at the end)
\* shorter than 5.
C24_OptimizeScrub ==
    FullyScrubbed
    => /\ \A i \in 1..(Len(scrubbed) - 1) : scrubbed[i] < scrubbed[i + 1]
       /\ CombinedOutliers \subseteq Range(scrubbed)
       /\ Range(scrubbed) \subseteq 0..(file.n_scans - 1)
       /\ \A a, b \in 0..(file.n_scans - 1) : KeptRun(a, b) => b - a + 1 >= 5

\* volumes were added between two outliers of the input and at the end, and
\* a run of exactly 5 volumes between two outliers was kept
C24_Witness ==
    /\ FullyScrubbed
    /\ \E v \in Range(scrubbed) \ CombinedOutliers :
           \E u, w \in CombinedOutliers : u < v /\ v < w
    /\ (file.n_scans - 1) \in Range(scrubbed) \ CombinedOutliers
    /\ \E a \in 1..(file.n_scans - 1) : KeptRun(a, a + 4)

=============================================================================
